---------------------------- MODULE Spec2Model ----------------------------
(***************************************************************************)
(* Model of caddy_deployer.py (class CaddyDeployer and main): the renderer *)
(* generate_config, the lifecycle operations deploy / undeploy /           *)
(* is_running, and the health aggregation health_check.                    *)
(*                                                                         *)
(* The Unix branch of every `self.system == 'windows'` test is modelled.   *)
(* Text is a sequence of one-character strings, so that the prefix and     *)
(* substring tests of the code are computed, not assumed.                  *)
(***************************************************************************)
EXTENDS Integers, Sequences, FiniteSets, TLC

(***************************************************************************)
(* Text helpers (Python str.startswith, `in`, str.split(":")[0]).          *)
(***************************************************************************)
StartsWith(s, p) ==
    /\ Len(p) <= Len(s)
    /\ SubSeq(s, 1, Len(p)) = p

Contains(s, sub) ==
    \E i \in 1..(Len(s) - Len(sub) + 1) : SubSeq(s, i, i + Len(sub) - 1) = sub

HasChar(s, c) == \E i \in 1..Len(s) : s[i] = c

\* s.split(c)[0]: the text before the first c (the whole text when c is absent)
SplitHead(s, c) ==
    IF HasChar(s, c)
    THEN LET k == CHOOSE i \in 1..Len(s) :
                      s[i] = c /\ \A j \in 1..(i - 1) : s[j] # c
         IN  SubSeq(s, 1, k - 1)
    ELSE s

\* the text after the last c (empty when c is absent)
AfterLast(s, c) ==
    IF HasChar(s, c)
    THEN LET k == CHOOSE i \in 1..Len(s) :
                      s[i] = c /\ \A j \in (i + 1)..Len(s) : s[j] # c
         IN  SubSeq(s, k + 1, Len(s))
    ELSE << >>

(***************************************************************************)
(* Literals of the source.                                                 *)
(***************************************************************************)
T_localhost == <<"l","o","c","a","l","h","o","s","t">>
T_127       == <<"1","2","7",".">>
T_127001    == <<"1","2","7",".","0",".","0",".","1">>
T_0000      == <<"0",".","0",".","0",".","0">>
T_colon80   == <<":","8","0">>
T_example   == <<"e","x",".","i","o">>
T_80        == <<"8","0">>
T_443       == <<"4","4","3">>
T_8080      == <<"8","0","8","0">>
T_8000      == <<"8","0","0","0">>
T_8443      == <<"8","4","4","3">>
T_3000      == <<"3","0","0","0">>
T_backend   == <<"a","p","p">>

WithPort(h, p) == h \o <<":">> \o p

\* the --domain values tried (default of the CLI: localhost:80)
ListenSpecs ==
    { T_localhost, WithPort(T_localhost, T_80), WithPort(T_localhost, T_8080),
      WithPort(T_127001, T_8443), WithPort(T_0000, T_80),
      T_colon80, WithPort(<< >>, T_443),
      T_example, WithPort(T_example, T_80), WithPort(T_example, T_8080),
      WithPort(T_example, T_8000), WithPort(T_example, T_443),
      WithPort(T_example, T_8443) }

BackendPorts == { T_3000, T_8080 }
BackendHosts == { T_127001, T_backend }

(***************************************************************************)
(* Security header lines of the three templates.                           *)
(***************************************************************************)
H_HSTS     == "Strict-Transport-Security \"max-age=31536000; includeSubDomains\""
H_FrameSO  == "X-Frame-Options \"SAMEORIGIN\""
H_FrameDN  == "X-Frame-Options \"DENY\""
H_NoSniff  == "X-Content-Type-Options \"nosniff\""
H_Referrer == "Referrer-Policy \"strict-origin-when-cross-origin\""
H_NoServer == "-Server"

(***************************************************************************)
(* generate_config: variant selection and the rendered document.           *)
(* A document is the list of its block openers (the text in front of each  *)
(* "{", in order), the header directives and the roll_keep value; a custom *)
(* override is written through unchanged.                                  *)
(***************************************************************************)
\* is_local that knows the exact host names only
is_local_hostOnly(domain) ==
    /\ HasChar(domain, ":")
    /\ SplitHead(domain, ":") \in { T_localhost, T_127001, T_0000 }

is_local(domain) ==
    \/ StartsWith(domain, T_localhost)
    \/ StartsWith(domain, T_127)
    \/ StartsWith(domain, T_0000)
    \/ /\ HasChar(domain, ":")
       /\ SplitHead(domain, ":") \in { T_localhost, T_127001, T_0000 }

\* is_http_only that knows the bare ":80" only
is_http_only_bare(domain) == domain = T_colon80

is_http_only(domain) == Contains(domain, T_colon80) \/ domain = T_colon80

Variant(domain) ==
    IF is_local(domain) THEN "local"
    ELSE IF is_http_only(domain) THEN "http"
    ELSE "hsts"

TemplateHeaders(v) ==
    CASE v = "local" -> { H_FrameSO, H_NoSniff, H_NoServer }
      [] v = "http"  -> { H_FrameDN, H_NoSniff, H_Referrer, H_NoServer }
      [] v = "hsts"  -> { H_HSTS, H_FrameDN, H_NoSniff, H_Referrer, H_NoServer }

TemplateRollKeep(v) == IF v = "local" THEN 3 ELSE 5

Render(domain, backend_host, backend_port) ==
    [ site      |-> domain,
      upstream  |-> WithPort(backend_host, backend_port),
      headers   |-> TemplateHeaders(Variant(domain)),
      roll_keep |-> TemplateRollKeep(Variant(domain)),
      custom    |-> FALSE ]

\* custom override texts: "" (falsy in `if custom_config:`) and one document
\* (the document of the override: ":80 { reverse_proxy app }")
CustomDoc ==
    [ site |-> T_colon80, upstream |-> T_backend,
      headers |-> {}, roll_keep |-> 0, custom |-> TRUE ]
NoCustom    == [ given |-> FALSE, text |-> "" ]
EmptyCustom == [ given |-> TRUE,  text |-> "" ]
SomeCustom  == [ given |-> TRUE,  text |-> "custom" ]
CustomConfigs == { NoCustom, EmptyCustom, SomeCustom }

\* a renderer that takes the local template for a loopback backend
config_content_byBackend(domain, backend_port, backend_host, custom_config) ==
    IF custom_config.given /\ custom_config.text # ""
    THEN CustomDoc
    ELSE [ Render(domain, backend_host, backend_port) EXCEPT
             !.headers = TemplateHeaders(IF backend_host = T_127001
                                         THEN "local" ELSE Variant(domain)) ]

\* `if custom_config:` is false for None and for the empty text
config_content(domain, backend_port, backend_host, custom_config) ==
    IF custom_config.given /\ custom_config.text # ""
    THEN CustomDoc
    ELSE Render(domain, backend_host, backend_port)

(***************************************************************************)
(* Listening ports of a document: re.findall(r':([0-9]+)\s*{', content).   *)
(* The openers of a rendered document that can match are the site line and *)
(* the reverse_proxy line; the others carry no ':'.                        *)
(***************************************************************************)
Digits == { "0", "1", "2", "3", "4", "5", "6", "7", "8", "9" }

DigitVal(c) ==
    CASE c = "0" -> 0 [] c = "1" -> 1 [] c = "2" -> 2 [] c = "3" -> 3
      [] c = "4" -> 4 [] c = "5" -> 5 [] c = "6" -> 6 [] c = "7" -> 7
      [] c = "8" -> 8 [] c = "9" -> 9

RECURSIVE ToInt(_)
ToInt(s) ==
    IF s = << >> THEN 0
    ELSE 10 * ToInt(SubSeq(s, 1, Len(s) - 1)) + DigitVal(s[Len(s)])

\* the digits between the last ':' of an opener and its '{', if any
OpenerPort(t) ==
    LET d == AfterLast(t, ":")
    IN  IF d # << >> /\ \A k \in 1..Len(d) : d[k] \in Digits
        THEN { ToInt(d) } ELSE {}

Openers(doc) == { doc.site, doc.upstream }

MentionsLocal(doc) ==
    \E t \in Openers(doc) :
        Contains(t, T_localhost) \/ Contains(t, T_127001) \/ Contains(t, T_0000)

\* the configuration file: readable is false when open()/read() raises
NoConfig == [ exists |-> FALSE, readable |-> FALSE, doc |-> CustomDoc ]
ConfigOf(d) == [ exists |-> TRUE, readable |-> TRUE, doc |-> d ]
Unreadable(d) == [ exists |-> TRUE, readable |-> FALSE, doc |-> d ]

_extract_listening_ports(cf) ==
    IF ~cf.exists THEN {}
    ELSE IF ~cf.readable THEN { 80, 443 }
    ELSE LET ports == UNION { OpenerPort(t) : t \in Openers(cf.doc) }
         IN  IF ports # {} THEN ports
             ELSE IF MentionsLocal(cf.doc) THEN { 80 } ELSE { 80, 443 }

(***************************************************************************)
(* Bounds of the model.                                                    *)
(***************************************************************************)
NumPids  == 2      \* process ids 1..NumPids
MaxCmds  == 2      \* top-level commands run in one behaviour
MaxCaddyLines == 1 \* log lines written by managed processes in one behaviour

\* program constants
max_wait  == 10    \* deploy(): polls
TailLines == 10    \* _check_startup_errors(): lines inspected

PIDs == 1..NumPids

VARIABLES
    pc,         \* position of the supervisor
    cmd,        \* command of the current invocation
    ret,        \* caller of the running undeploy(): "main" or "deploy"
    exitCode,   \* exit code of the invocation (-1: none yet, 143: killed by SIGTERM)
    retval,     \* value returned by deploy() / undeploy() at its return point
    procs,      \* process table: pid -> process
    pidFile,    \* ~/.caddy/caddy.pid
    cfgFile,    \* ~/.caddy/Caddyfile
    log,        \* ~/.caddy/caddy.log: its last TailLines lines
    selfMatch,  \* the supervisor's own command line contains "caddy"
    i,          \* deploy(): polls done
    newPid,     \* deploy(): process.pid (0: nothing launched)
    upid,       \* undeploy(): pid read from the PID file
    nCmds,      \* commands started
    nLines,     \* lines written by managed processes
    sent,       \* signals sent by the last step
    genCall,    \* arguments and result of the last generate_config()
    report,     \* the health report
    hist        \* history of the running operation (observations only)

vars == << pc, cmd, ret, exitCode, retval, procs, pidFile, cfgFile, log,
           selfMatch, i, newPid, upid, nCmds, nLines, sent, genCall, report,
           hist >>

(***************************************************************************)
(* Processes.  caddy: the command line matches the managed invocation      *)
(* pattern '^.*caddy\s+(run|start)'; own: owned by the supervisor's user   *)
(* (os.kill on a process of another user raises PermissionError).          *)
(***************************************************************************)
NoProc == [ live |-> FALSE, caddy |-> FALSE, own |-> FALSE ]
Proc(c, o) == [ live |-> TRUE, caddy |-> c, own |-> o ]
Managed   == Proc(TRUE, TRUE)     \* caddy run ..., same user
RootCaddy == Proc(TRUE, FALSE)    \* caddy run ..., another user
Unrelated == Proc(FALSE, TRUE)    \* anything else, same user
ProcValues == { NoProc, Managed, RootCaddy, Unrelated }

\* PID file contents: absent, unparsable text, or decimal text of a pid
PidAbsent  == [ st |-> "absent",  pid |-> 0 ]
PidGarbage == [ st |-> "garbage", pid |-> 0 ]
PidText(p) == [ st |-> "pid",     pid |-> p ]
PidFileValues == { PidAbsent, PidGarbage } \cup { PidText(p) : p \in PIDs }

(***************************************************************************)
(* Log lines: who wrote the line and which of the substrings tested by     *)
(* _check_startup_errors the lower-cased line contains.                    *)
(***************************************************************************)
M_error   == "error:"
M_failed  == "failed"
M_inuse   == "address already in use"
M_bind    == "bind"
M_address == "address"
M_perm    == "permission denied"
M_config  == "config"

\* run: for a line of a managed process, the number of the command whose
\* launch wrote it (0 for the supervisor's own lines)
Line(by, marks) == [ by |-> by, marks |-> marks, run |-> 0 ]
WrittenIn(line, n) == [ line EXCEPT !.run = n ]
SupLine == Line("supervisor", {})

\* lines the managed process writes to its stdout/stderr
CaddyLines ==
    { Line("caddy", { M_error, M_bind, M_address, M_inuse }),
      Line("caddy", { M_bind, M_address, M_inuse }),
      Line("caddy", { M_failed }) }

\* stderr of `caddy validate` as logged by validate_config()
ValidateErrLine == Line("supervisor", { M_error, M_config })

recent_lines(l) ==
    IF Len(l) >= TailLines THEN SubSeq(l, Len(l) - TailLines + 1, Len(l)) ELSE l

LogAppend(l, lines) == recent_lines(l \o lines)

Sup(n) == [ k \in 1..n |-> SupLine ]

(***************************************************************************)
(* _check_startup_errors                                                   *)
(***************************************************************************)
IsFatal(line) == M_error \in line.marks \/ M_failed \in line.marks

Classify_bindFirst(line) ==
    IF M_bind \in line.marks /\ M_address \in line.marks THEN "BindFailed"
    ELSE IF M_inuse \in line.marks THEN "PortInUse"
    ELSE IF M_perm \in line.marks THEN "Permission"
    ELSE IF M_config \in line.marks THEN "ConfigError"
    ELSE "Unclassified"

Classify(line) ==
    IF M_inuse \in line.marks THEN "PortInUse"
    ELSE IF M_bind \in line.marks /\ M_address \in line.marks THEN "BindFailed"
    ELSE IF M_perm \in line.marks THEN "Permission"
    ELSE IF M_config \in line.marks THEN "ConfigError"
    ELSE "Unclassified"

FatalAt(r) == { k \in 1..Len(r) : IsFatal(r[k]) }

\* the first line of the tail that has 'error:' or 'failed'
FirstFatal(l) ==
    LET r == recent_lines(l)
    IN  r[CHOOSE k \in FatalAt(r) : \A j \in FatalAt(r) : k <= j]

_check_startup_errors(l) ==
    IF FatalAt(recent_lines(l)) = {} THEN "None" ELSE Classify(FirstFatal(l))

(***************************************************************************)
(* is_running and its two probes.                                          *)
(***************************************************************************)
_check_pid_file_process(pf, pr) ==
    /\ pf.st = "pid"
    /\ pr[pf.pid].live
    /\ pr[pf.pid].own

_check_any_caddy_process(pr) == \E p \in PIDs : pr[p].live /\ pr[p].caddy

is_running(pf, pr) ==
    _check_pid_file_process(pf, pr) \/ _check_any_caddy_process(pr)

\* pkill -f caddy: the processes that receive SIGTERM (own ones that match)
SweepTargets(pr) == { p \in PIDs : pr[p].live /\ pr[p].caddy /\ pr[p].own }

Kill(pr, S) == [ p \in PIDs |-> IF p \in S THEN NoProc ELSE pr[p] ]

\* a signal as os.kill / pkill is asked to send it: its number, the pid
\* addressed, and what the pid was then (NoProc: no such process)
Sig(s, p, pr) == [ sig |-> s, pid |-> p, to |-> pr[p] ]
SelfSig == [ sig |-> "TERM", pid |-> 0, to |-> Unrelated ]

SweepSignals(pr, self) ==
    { Sig("TERM", p, pr) : p \in SweepTargets(pr) }
        \cup (IF self THEN { SelfSig } ELSE {})

(***************************************************************************)
(* History of the running operation: what it saw when it started and what  *)
(* it has done.  Read by the properties only.                              *)
(***************************************************************************)
NoSnap == [ pidFile |-> PidAbsent, cfgFile |-> NoConfig, running |-> FALSE,
            written |-> 0, signalled |-> FALSE, swept |-> FALSE ]

NoHist ==
    [ startPid   |-> PidAbsent, \* PID file when the command started
      wasRunning |-> FALSE,     \* is_running() held when deploy() was entered
      oldAlive   |-> FALSE,     \* the process recorded and alive then still is
      validated  |-> "none",    \* outcome of main's validate_config()
      launched   |-> FALSE,     \* deploy() started a process
      how        |-> "none",    \* how deploy() ended
      errKind    |-> "None",    \* last poll: result of _check_startup_errors
      u          |-> NoSnap ]   \* undeploy(): state at entry, and what it did

NoGenCall ==
    [ called |-> FALSE, domain |-> << >>, backend_port |-> << >>,
      backend_host |-> << >>, enable_ssl |-> FALSE, custom_config |-> NoCustom,
      ok |-> FALSE ]
FailedCall == [ NoGenCall EXCEPT !.called = TRUE ]

CheckNames == { "process", "config", "ports", "frontend", "backend", "ssl" }
NoCheck  == [ status |-> "none", required |-> FALSE ]
NoReport == [ overall_status |-> "unknown",
              checks |-> [ c \in CheckNames |-> NoCheck ],
              raised |-> {}, listening |-> {} ]

\* The process table lists what the supervisor can observe: processes that
\* match the managed pattern, and whatever holds the recorded pid.
Observable(pf, pr) ==
    \A p \in PIDs : pr[p] = Unrelated => pf = PidText(p)

Init ==
    /\ pc = "idle"
    /\ cmd = "none"
    /\ ret = "main"
    /\ exitCode = -1
    /\ retval = FALSE
    /\ procs \in [ PIDs -> ProcValues ]
    /\ pidFile \in PidFileValues
    /\ Observable(pidFile, procs)
    /\ cfgFile = NoConfig
    /\ log = << >>
    /\ selfMatch \in BOOLEAN
    /\ i = 0
    /\ newPid = 0
    /\ upid = 0
    /\ nCmds = 0
    /\ nLines = 0
    /\ sent = {}
    /\ genCall = NoGenCall
    /\ report = NoReport
    /\ hist = NoHist

\* variables no lifecycle step touches
Others == << report >>

\* the death of the processes S, as the history sees it
Forget(h, S) ==
    IF h.startPid.st = "pid" /\ h.startPid.pid \in S
    THEN [ h EXCEPT !.oldAlive = FALSE ] ELSE h

Wrote(h, n) == [ h EXCEPT !.u.written = @ + n ]

(***************************************************************************)
(* undeploy()                                                              *)
(***************************************************************************)
\* undeploy() that also removes the PID file on its early return
UndeployStart_unlink ==
    /\ pc = "u_start"
    /\ LET snap == [ pidFile |-> pidFile, cfgFile |-> cfgFile,
                     running |-> is_running(pidFile, procs),
                     written |-> 0, signalled |-> FALSE, swept |-> FALSE ]
       IN  IF ~is_running(pidFile, procs)
           THEN /\ log' = LogAppend(log, Sup(2))
                /\ hist' = Wrote([ hist EXCEPT !.u = snap ], 2)
                /\ retval' = TRUE
                /\ pidFile' = PidAbsent
                /\ pc' = "u_ret"
           ELSE /\ log' = LogAppend(log, Sup(1))
                /\ hist' = Wrote([ hist EXCEPT !.u = snap ], 1)
                /\ retval' = retval
                /\ pidFile' = pidFile
                /\ pc' = "u_term"
    /\ sent' = {}
    /\ UNCHANGED << cmd, ret, exitCode, procs, cfgFile, selfMatch, i,
                    newPid, upid, nCmds, nLines, genCall, Others >>

\* lines 413-418: the entry log line and the is_running() test
UndeployStart ==
    /\ pc = "u_start"
    /\ LET snap == [ pidFile |-> pidFile, cfgFile |-> cfgFile,
                     running |-> is_running(pidFile, procs),
                     written |-> 0, signalled |-> FALSE, swept |-> FALSE ]
       IN  IF ~is_running(pidFile, procs)
           THEN /\ log' = LogAppend(log, Sup(2))
                /\ hist' = Wrote([ hist EXCEPT !.u = snap ], 2)
                /\ retval' = TRUE
                /\ pc' = "u_ret"
           ELSE /\ log' = LogAppend(log, Sup(1))
                /\ hist' = Wrote([ hist EXCEPT !.u = snap ], 1)
                /\ retval' = retval
                /\ pc' = "u_term"
    /\ sent' = {}
    /\ UNCHANGED << cmd, ret, exitCode, procs, pidFile, cfgFile, selfMatch, i,
                    newPid, upid, nCmds, nLines, genCall, Others >>

\* lines 420-434: read the PID file and send SIGTERM
UndeployTerm ==
    /\ pc = "u_term"
    /\ UNCHANGED << cmd, ret, exitCode, cfgFile, selfMatch, i, newPid, nCmds,
                    nLines, genCall, Others >>
    /\ CASE pidFile.st = "absent" ->
              \* no PID file: straight to the sweep
              /\ pc' = "u_sweep"
              /\ sent' = {}
              /\ UNCHANGED << retval, procs, pidFile, log, upid, hist >>
         [] pidFile.st = "garbage" ->
              \* int() raises ValueError: caught at line 448
              /\ log' = LogAppend(log, Sup(1))
              /\ hist' = Wrote(hist, 1)
              /\ retval' = FALSE
              /\ pc' = "u_ret"
              /\ sent' = {}
              /\ UNCHANGED << procs, pidFile, upid >>
         [] pidFile.st = "pid" ->
              LET p == pidFile.pid IN
              IF ~procs[p].live
              THEN \* ProcessLookupError: passed over, PID file removed
                   /\ log' = LogAppend(log, Sup(1))
                   /\ hist' = Wrote(hist, 1)
                   /\ pidFile' = PidAbsent
                   /\ pc' = "u_sweep"
                   /\ sent' = { Sig("TERM", p, procs) }
                   /\ UNCHANGED << retval, procs, upid >>
              ELSE IF ~procs[p].own
              THEN \* PermissionError: caught at line 448
                   /\ log' = LogAppend(log, Sup(2))
                   /\ hist' = Wrote(hist, 2)
                   /\ retval' = FALSE
                   /\ pc' = "u_ret"
                   /\ sent' = {}
                   /\ UNCHANGED << procs, pidFile, upid >>
              ELSE \* SIGTERM delivered; the process exits now or later
                   /\ \E dies \in BOOLEAN :
                        /\ procs' = IF dies THEN Kill(procs, {p}) ELSE procs
                        /\ hist' = [ Wrote(IF dies THEN Forget(hist, {p}) ELSE hist, 1)
                                     EXCEPT !.u.signalled = TRUE ]
                   /\ sent' = { Sig("TERM", p, procs) }
                   /\ log' = LogAppend(log, Sup(1))
                   /\ upid' = p
                   /\ pc' = "u_kill"
                   /\ UNCHANGED << retval, pidFile >>

\* lines 434-440: after the 2 s sleep, SIGKILL, then remove the PID file
UndeployKill ==
    /\ pc = "u_kill"
    /\ upid' = 0
    /\ UNCHANGED << cmd, ret, exitCode, cfgFile, selfMatch, i, newPid, nCmds,
                    nLines, genCall, Others >>
    /\ IF ~procs[upid].live
       THEN \* ProcessLookupError: passed over
            /\ pidFile' = PidAbsent
            /\ pc' = "u_sweep"
            /\ sent' = { Sig("KILL", upid, procs) }
            /\ UNCHANGED << retval, procs, log, hist >>
       ELSE IF ~procs[upid].own
       THEN \* PermissionError: caught at line 448
            /\ log' = LogAppend(log, Sup(1))
            /\ hist' = Wrote(hist, 1)
            /\ retval' = FALSE
            /\ pc' = "u_ret"
            /\ sent' = {}
            /\ UNCHANGED << procs, pidFile >>
       ELSE /\ procs' = Kill(procs, {upid})
            /\ hist' = Forget(hist, {upid})
            /\ sent' = { Sig("KILL", upid, procs) }
            /\ pidFile' = PidAbsent
            /\ pc' = "u_sweep"
            /\ UNCHANGED << retval, log >>

\* _cleanup_caddy_processes (pkill -f caddy): SIGTERM to every own process
\* whose command line contains "caddy", the supervisor included when its own
\* command line does.  D: the targets that have exited when pkill returns.
_cleanup_caddy_processes(D) ==
    /\ D \subseteq SweepTargets(procs)
    /\ procs' = Kill(procs, D)
    /\ sent' = SweepSignals(procs, selfMatch)

\* lines 442-446: the sweep and the success return
UndeploySweep ==
    /\ pc = "u_sweep"
    /\ \E D \in SUBSET PIDs :
         /\ _cleanup_caddy_processes(D)
         /\ hist' = [ Wrote(Forget(hist, D), IF selfMatch THEN 0 ELSE 1)
                      EXCEPT !.u.signalled = @ \/ SweepSignals(procs, selfMatch) # {},
                             !.u.swept = TRUE ]
    /\ IF selfMatch
       THEN \* the supervisor is terminated by its own pkill
            /\ pc' = "done"
            /\ exitCode' = 143
            /\ UNCHANGED << retval, log >>
       ELSE /\ log' = LogAppend(log, Sup(1))
            /\ retval' = TRUE
            /\ pc' = "u_ret"
            /\ UNCHANGED exitCode
    /\ UNCHANGED << cmd, ret, pidFile, cfgFile, selfMatch, i, newPid, upid,
                    nCmds, nLines, genCall, Others >>

\* undeploy() returns: to main (lines 1476-1480) or into deploy() (line 349)
UndeployReturn ==
    /\ pc = "u_ret"
    /\ IF ret = "main"
       THEN /\ pc' = "done"
            /\ exitCode' = IF retval THEN 0 ELSE 1
            /\ log' = LogAppend(log, IF retval THEN Sup(1) ELSE << >>)
            /\ UNCHANGED hist
       ELSE /\ pc' = "d_launch"
            /\ hist' = [ hist EXCEPT !.u = NoSnap ]
            /\ UNCHANGED << exitCode, log >>
    /\ sent' = {}
    /\ UNCHANGED << cmd, ret, retval, procs, pidFile, cfgFile, selfMatch, i,
                    newPid, upid, nCmds, nLines, genCall, Others >>

(***************************************************************************)
(* main: the deploy command, and deploy()                                  *)
(***************************************************************************)
DeployDomains == { WithPort(T_localhost, T_80) }

\* lines 1450-1457 (and 285-287): the config file after main's call of
\* generate_config, which leaves the file alone when it fails
WrittenConfig_notYet(ok, domain, cf) == cf

WrittenConfig(ok, domain, cf) ==
    IF ok THEN ConfigOf(config_content(domain, T_3000, T_127001, NoCustom))
    ELSE cf

\* lines 1426-1457: dependency and binary checks, then generate_config
MainDeploy ==
    /\ pc = "idle"
    /\ nCmds < MaxCmds
    /\ nCmds' = nCmds + 1
    /\ cmd' = "deploy"
    /\ hist' = [ NoHist EXCEPT !.startPid = pidFile ]
    /\ sent' = {}
    /\ \E installed \in BOOLEAN, ok \in BOOLEAN, domain \in DeployDomains :
         IF ~installed
         THEN /\ log' = LogAppend(log, Sup(4))
              /\ exitCode' = 1
              /\ pc' = "done"
              /\ UNCHANGED << cfgFile, genCall >>
         ELSE /\ genCall' = IF ok
                            THEN [ called |-> TRUE, domain |-> domain,
                                   backend_port |-> T_3000,
                                   backend_host |-> T_127001,
                                   enable_ssl |-> FALSE,
                                   custom_config |-> NoCustom, ok |-> TRUE ]
                            ELSE FailedCall
              /\ cfgFile' = WrittenConfig(ok, domain, cfgFile)
              /\ log' = LogAppend(log, Sup(4))
              /\ exitCode' = IF ok THEN -1 ELSE 1
              /\ pc' = IF ok THEN "m_validate" ELSE "done"
    /\ UNCHANGED << ret, retval, procs, pidFile, selfMatch, i, newPid, upid,
                    nLines, Others >>

\* lines 1459-1461: main goes on to deploy() only with a valid configuration
ValidateNext_ignored(outcome) == "d_conflicts"

ValidateNext(outcome) == IF outcome = "valid" THEN "d_conflicts" ELSE "done"

\* lines 1459-1461 and validate_config: `caddy validate` accepts the file,
\* rejects it (stderr is logged), or cannot be run (no log line)
MainValidate ==
    /\ pc = "m_validate"
    /\ \E outcome \in { "valid", "invalid", "error" } :
         /\ hist' = [ hist EXCEPT !.validated = outcome ]
         /\ log' = CASE outcome = "valid"   -> LogAppend(log, Sup(1))
                     [] outcome = "invalid" -> LogAppend(log, << ValidateErrLine >>)
                     [] outcome = "error"   -> log
         /\ pc' = ValidateNext(outcome)
         /\ exitCode' = IF outcome = "valid" THEN exitCode ELSE 1
    /\ sent' = {}
    /\ UNCHANGED << cmd, ret, retval, procs, pidFile, cfgFile, selfMatch, i,
                    newPid, upid, nCmds, nLines, genCall, Others >>

\* lines 323-343: the pre-start conflict check.  admin / busy: what the TCP
\* probes of port 2019 and of the configured ports answer.
DeployConflicts ==
    /\ pc = "d_conflicts"
    /\ \E admin \in BOOLEAN, busy \in SUBSET _extract_listening_ports(cfgFile),
          D \in SUBSET PIDs :
         LET h0 == [ hist EXCEPT !.wasRunning = is_running(pidFile, procs),
                                 !.oldAlive = pidFile.st = "pid" /\ procs[pidFile.pid].live ]
             warn == 1 + (IF admin THEN 1 ELSE 0) + Cardinality(busy)
         IN  IF ~admin /\ busy = {}
             THEN /\ D = {}
                  /\ log' = LogAppend(log, Sup(1))
                  /\ hist' = h0
                  /\ pc' = "d_isrunning"
                  /\ sent' = {}
                  /\ UNCHANGED << procs, exitCode >>
             ELSE IF _check_any_caddy_process(procs)
             THEN \* _get_running_caddy_processes() is not empty: sweep
                  /\ _cleanup_caddy_processes(D)
                  /\ log' = LogAppend(log, Sup(1 + warn + 1))
                  /\ hist' = Forget(h0, D)
                  /\ pc' = IF selfMatch THEN "done" ELSE "d_isrunning"
                  /\ exitCode' = IF selfMatch THEN 143 ELSE exitCode
             ELSE \* a foreign occupant: warn and go on
                  /\ D = {}
                  /\ log' = LogAppend(log, Sup(1 + warn + 3))
                  /\ hist' = h0
                  /\ pc' = "d_isrunning"
                  /\ sent' = {}
                  /\ UNCHANGED << procs, exitCode >>
    /\ UNCHANGED << cmd, ret, retval, pidFile, cfgFile, selfMatch, i, newPid,
                    upid, nCmds, nLines, genCall, Others >>

\* lines 351-383: Popen, then the supervisor writes process.pid to the PID file
Launch ==
    /\ sent' = {}
    /\ IF \E p \in PIDs : ~procs[p].live
       THEN \E p \in PIDs :
              /\ ~procs[p].live
              /\ procs' = [ procs EXCEPT ![p] = Managed ]
              /\ pidFile' = PidText(p)
              /\ newPid' = p
              /\ i' = 0
              /\ log' = LogAppend(log, Sup(2))
              /\ hist' = [ hist EXCEPT !.launched = TRUE ]
              /\ pc' = "d_poll"
              /\ UNCHANGED retval
       ELSE \* Popen raises OSError: caught at line 407
            /\ log' = LogAppend(log, Sup(2))
            /\ hist' = [ hist EXCEPT !.how = "exception" ]
            /\ retval' = FALSE
            /\ pc' = "d_ret"
            /\ UNCHANGED << procs, pidFile, newPid, i >>

\* lines 345-349: the is_running() test; a running service is stopped first
DeployIsRunning ==
    /\ pc = "d_isrunning"
    /\ IF is_running(pidFile, procs)
       THEN /\ log' = LogAppend(log, Sup(1))
            /\ ret' = "deploy"
            /\ pc' = "u_start"
            /\ sent' = {}
            /\ UNCHANGED << retval, procs, pidFile, newPid, i, hist >>
       ELSE /\ Launch
            /\ UNCHANGED ret
    /\ UNCHANGED << cmd, exitCode, cfgFile, selfMatch, upid, nCmds, nLines,
                    genCall, Others >>

\* lines 349-351: after the implicit undeploy() and the 2 s sleep
DeployLaunch ==
    /\ pc = "d_launch"
    /\ Launch
    /\ UNCHANGED << cmd, ret, exitCode, cfgFile, selfMatch, upid, nCmds, nLines,
                    genCall, Others >>

\* the echo of a log line in a supervisor message keeps its substrings
Echo(l) == [ k \in 1..Len(l) |-> Line("supervisor", l[k].marks) ]

LastN(l, n) == IF Len(l) > n THEN SubSeq(l, Len(l) - n + 1, Len(l)) ELSE l

\* lines printed by _provide_error_solution
SolutionLines(e) ==
    CASE e \in { "PortInUse", "BindFailed" }  -> 4
      [] e \in { "Permission", "ConfigError" } -> 3
      [] OTHER -> 0

\* lines 385-405: what the k-th iteration of the start poll decides; the PID
\* check comes first, then the log scan, and the loop ends after max_wait
PollOutcome_offByOne(alive, e, k) ==
    CASE alive        -> "alive"
      [] e # "None"   -> "classified"
      [] k <= max_wait -> "continue"
      [] OTHER        -> "timeout"

\* the iteration with the log scan in front of the PID check
PollOutcome_logFirst(alive, e, k) ==
    CASE e # "None"   -> "classified"
      [] alive        -> "alive"
      [] k < max_wait -> "continue"
      [] OTHER        -> "timeout"

PollOutcome(alive, e, k) ==
    CASE alive        -> "alive"
      [] e # "None"   -> "classified"
      [] k < max_wait -> "continue"
      [] OTHER        -> "timeout"

\* lines 385-405: one iteration of the start poll (after its 1 s sleep);
\* the last iteration falls through to the timeout report
DeployPoll ==
    /\ pc = "d_poll"
    /\ i < max_wait
    /\ i' = i + 1
    /\ sent' = {}
    /\ LET alive == _check_pid_file_process(pidFile, procs)
           e     == _check_startup_errors(log)
           o     == PollOutcome(alive, e, i + 1)
       IN  CASE o = "alive" ->
                  /\ log' = LogAppend(log, Sup(1))
                  /\ hist' = [ hist EXCEPT !.how = "alive" ]
                  /\ retval' = TRUE
                  /\ pc' = "d_ret"
             [] o = "classified" ->
                  /\ log' = LogAppend(log,
                               (IF e = "Unclassified"
                                THEN Echo(<< FirstFatal(log) >>) ELSE Sup(1))
                               \o Sup(SolutionLines(e)))
                  /\ hist' = [ hist EXCEPT !.how = "classified", !.errKind = e ]
                  /\ retval' = FALSE
                  /\ pc' = "d_ret"
             [] o = "continue" ->
                  UNCHANGED << log, retval, pc, hist >>
             [] o = "timeout" ->
                  LET l1 == LogAppend(log, Sup(1))
                  IN  /\ log' = LogAppend(l1, Sup(1) \o Echo(LastN(l1, 5)))
                      /\ hist' = [ hist EXCEPT !.how = "timeout" ]
                      /\ retval' = FALSE
                      /\ pc' = "d_ret"
    /\ UNCHANGED << cmd, ret, exitCode, procs, pidFile, cfgFile, selfMatch,
                    newPid, upid, nCmds, nLines, genCall, Others >>

\* lines 1464-1473: main's exit code for deploy()
DeployReturn ==
    /\ pc = "d_ret"
    /\ pc' = "done"
    /\ exitCode' = IF retval THEN 0 ELSE 1
    /\ log' = LogAppend(log, IF retval THEN Sup(3) ELSE << >>)
    /\ sent' = {}
    /\ i' = 0
    /\ hist' = [ hist EXCEPT !.errKind = "None" ]
    /\ UNCHANGED << cmd, ret, retval, procs, pidFile, cfgFile, selfMatch,
                    newPid, upid, nCmds, nLines, genCall, Others >>

\* lines 1475-1476: the undeploy command
MainUndeploy ==
    /\ pc = "idle"
    /\ nCmds < MaxCmds
    /\ nCmds' = nCmds + 1
    /\ cmd' = "undeploy"
    /\ ret' = "main"
    /\ hist' = [ NoHist EXCEPT !.startPid = pidFile ]
    /\ pc' = "u_start"
    /\ sent' = {}
    /\ UNCHANGED << exitCode, retval, procs, pidFile, cfgFile, log, selfMatch,
                    i, newPid, upid, nLines, genCall, Others >>

\* the invocation ends (sys.exit): the next command starts afresh
Finish ==
    /\ pc = "done"
    /\ pc' = "idle"
    /\ cmd' = "none"
    /\ ret' = "main"
    /\ exitCode' = -1
    /\ retval' = FALSE
    /\ i' = 0
    /\ newPid' = 0
    /\ upid' = 0
    /\ sent' = {}
    /\ hist' = NoHist
    /\ UNCHANGED << procs, pidFile, cfgFile, log, selfMatch, nCmds, nLines,
                    genCall, Others >>

(***************************************************************************)
(* The environment: processes exit, the recorded pid is taken by an        *)
(* unrelated process, a managed process writes to the log.  Nothing        *)
(* happens at a return point, which is an instant.                         *)
(***************************************************************************)
Instant == pc \in { "u_ret", "d_ret", "done" }

EnvExit ==
    /\ ~Instant
    /\ \E p \in PIDs :
         /\ procs[p].live
         /\ procs' = Kill(procs, {p})
         /\ hist' = Forget(hist, {p})
    /\ sent' = {}
    /\ UNCHANGED << pc, cmd, ret, exitCode, retval, pidFile, cfgFile, log,
                    selfMatch, i, newPid, upid, nCmds, nLines, genCall, Others >>

\* pid reuse: only the pid the supervisor will look at matters
EnvSpawn ==
    /\ ~Instant
    /\ \E p \in PIDs :
         /\ ~procs[p].live
         /\ pidFile = PidText(p) \/ (pc = "u_kill" /\ upid = p)
         /\ procs' = [ procs EXCEPT ![p] = Unrelated ]
    /\ sent' = {}
    /\ UNCHANGED << pc, cmd, ret, exitCode, retval, pidFile, cfgFile, log,
                    selfMatch, i, newPid, upid, nCmds, nLines, hist, genCall,
                    Others >>

CaddyLog ==
    /\ pc = "d_poll"
    /\ nLines < MaxCaddyLines
    /\ nLines' = nLines + 1
    /\ \E line \in CaddyLines :
         log' = LogAppend(log, << WrittenIn(line, nCmds) >>)
    /\ sent' = {}
    /\ UNCHANGED << pc, cmd, ret, exitCode, retval, procs, pidFile, cfgFile,
                    selfMatch, i, newPid, upid, nCmds, hist, genCall, Others >>

Next ==
    \/ MainDeploy \/ MainValidate \/ DeployConflicts \/ DeployIsRunning
    \/ DeployLaunch \/ DeployPoll \/ DeployReturn
    \/ MainUndeploy \/ UndeployStart \/ UndeployTerm \/ UndeployKill
    \/ UndeploySweep \/ UndeployReturn
    \/ Finish
    \/ EnvExit \/ EnvSpawn \/ CaddyLog

Spec == Init /\ [][Next]_vars

(***************************************************************************)
(* generate_config as an operation, on every listen spec.                  *)
(***************************************************************************)
Quiet ==
    /\ pc = "idle" /\ cmd = "none" /\ ret = "main" /\ exitCode = -1
    /\ retval = FALSE /\ i = 0 /\ newPid = 0 /\ upid = 0 /\ nCmds = 0
    /\ nLines = 0 /\ sent = {} /\ hist = NoHist /\ log = << >>
    /\ report = NoReport

InitConfig ==
    /\ Quiet
    /\ procs = [ p \in PIDs |-> NoProc ]
    /\ pidFile = PidAbsent
    /\ selfMatch = FALSE
    /\ cfgFile = NoConfig
    /\ genCall = NoGenCall

\* lines 166-294; ok: the file could be written
generate_config ==
    /\ \E domain \in ListenSpecs, backend_port \in BackendPorts,
          backend_host \in BackendHosts, enable_ssl \in BOOLEAN,
          custom_config \in CustomConfigs, ok \in BOOLEAN :
         /\ genCall' = IF ok
                       THEN [ called |-> TRUE, domain |-> domain,
                              backend_port |-> backend_port,
                              backend_host |-> backend_host,
                              enable_ssl |-> enable_ssl,
                              custom_config |-> custom_config, ok |-> TRUE ]
                       ELSE FailedCall
         /\ cfgFile' = IF ok
                       THEN ConfigOf(config_content(domain, backend_port,
                                                    backend_host, custom_config))
                       ELSE cfgFile
    /\ log' = LogAppend(log, Sup(2))
    /\ UNCHANGED << pc, cmd, ret, exitCode, retval, procs, pidFile, selfMatch,
                    i, newPid, upid, nCmds, nLines, sent, report, hist >>

SpecConfig == InitConfig /\ [][generate_config]_vars

(***************************************************************************)
(* Endpoints read back from the document.                                  *)
(***************************************************************************)
T_http     == <<"h","t","t","p">>
T_dotlocal == <<".","l","o","c","a","l">>

EndsWith(s, q) ==
    /\ Len(q) <= Len(s)
    /\ SubSeq(s, Len(s) - Len(q) + 1, Len(s)) = q

\* lines 1040-1056: the URL scheme chosen for a site address
EndpointScheme(domain) ==
    IF StartsWith(domain, <<":">>) THEN "http"
    ELSE IF HasChar(domain, ":") /\ ~StartsWith(domain, T_http)
    THEN IF StartsWith(domain, T_localhost) \/ Contains(domain, T_127001)
         THEN "http" ELSE "https"
    ELSE IF \/ domain = T_localhost
            \/ StartsWith(domain, T_127)
            \/ EndsWith(domain, T_dotlocal)
         THEN "http" ELSE "https"

EndpointHost(domain) ==
    IF StartsWith(domain, <<":">>) THEN T_localhost \o domain ELSE domain

_extract_frontend_endpoints(cf) ==
    IF ~cf.exists THEN {}
    ELSE IF ~cf.readable THEN { [ scheme |-> "http", host |-> T_localhost ] }
    ELSE { [ scheme |-> EndpointScheme(cf.doc.site),
             host |-> EndpointHost(cf.doc.site) ] }

_extract_https_endpoints(cf) ==
    { ep \in _extract_frontend_endpoints(cf) : ep.scheme = "https" }

_extract_backend_endpoints(cf) ==
    IF ~cf.exists \/ ~cf.readable THEN {} ELSE { cf.doc.upstream }

\* `host, port = backend.split(':')` and int(port) succeed
BackendParses(b) ==
    /\ Cardinality({ k \in 1..Len(b) : b[k] = ":" }) = 1
    /\ AfterLast(b, ":") # << >>
    /\ \A k \in 1..Len(AfterLast(b, ":")) : AfterLast(b, ":")[k] \in Digits

(***************************************************************************)
(* The six checks.  Each takes what its probes answered:                   *)
(*   valid     `caddy validate` exits 0                                    *)
(*   listening ports on which 127.0.0.1 accepts a connection               *)
(*   front     _test_http_endpoint: "ok", "http_error" or "raised"         *)
(*   back      _test_backend_connection: "ok", "refused" or "raised"       *)
(*   cert      _get_ssl_certificate_info: "valid", "expired" or "raised"   *)
(* A probe that raises is caught inside the probe function itself          *)
(* (lines 945, 957, 989) and counts as a failed probe.                     *)
(***************************************************************************)
Check(status, required) == [ status |-> status, required |-> required ]

_check_process(pf, pr) ==
    IF ~is_running(pf, pr) THEN Check("error", TRUE)
    ELSE IF pf.st = "garbage" THEN Check("error", TRUE)   \* int() raises
    ELSE Check("ok", TRUE)

_check_config(cf, valid) ==
    IF ~cf.exists THEN Check("error", TRUE)
    ELSE IF valid THEN Check("ok", TRUE)
    ELSE Check("error", TRUE)

_check_ports(cf, listening) ==
    IF _extract_listening_ports(cf) \cap listening # {}
    THEN Check("ok", TRUE) ELSE Check("error", TRUE)

_check_frontend_connectivity(cf, front) ==
    IF \E ep \in _extract_frontend_endpoints(cf) : front = "ok"
    THEN Check("ok", TRUE) ELSE Check("error", TRUE)

_check_backend_connectivity_required(cf, back) ==
    IF \E b \in _extract_backend_endpoints(cf) : ~BackendParses(b)
    THEN Check("warning", TRUE)
    ELSE IF \E b \in _extract_backend_endpoints(cf) : back = "ok"
    THEN Check("ok", TRUE)
    ELSE Check("warning", TRUE)

_check_backend_connectivity(cf, back) ==
    IF \E b \in _extract_backend_endpoints(cf) : ~BackendParses(b)
    THEN Check("warning", FALSE)                          \* split/int raises
    ELSE IF \E b \in _extract_backend_endpoints(cf) : back = "ok"
    THEN Check("ok", TRUE)
    ELSE Check("warning", FALSE)

\* the certificate probe's exception reaching the handler of line 905
_check_ssl_status_info(cf, cert) ==
    IF _extract_https_endpoints(cf) = {} THEN Check("info", FALSE)
    ELSE IF cert = "valid" THEN Check("ok", FALSE)
    ELSE IF cert = "raised" THEN Check("info", FALSE)
    ELSE Check("warning", FALSE)

\* No exception reaches the handler of line 905 (status 'info'): both
\* _extract_frontend_endpoints and _get_ssl_certificate_info catch Exception.
_check_ssl_status(cf, cert) ==
    IF _extract_https_endpoints(cf) = {} THEN Check("info", FALSE)
    ELSE IF cert = "valid" THEN Check("ok", FALSE)
    ELSE Check("warning", FALSE)

\* the aggregation without the `if check.get('required', True)` filter
overall_status_allChecks(checks) ==
    IF \A c \in DOMAIN checks : checks[c].status = "ok"
    THEN "healthy" ELSE "unhealthy"

\* lines 691-698
overall_status(checks) ==
    IF \A c \in DOMAIN checks : checks[c].required => checks[c].status = "ok"
    THEN "healthy" ELSE "unhealthy"

\* The checks whose probe raised an exception: int() of the PID file,
\* the HTTP request, the TCP connect or split/int of the backend address,
\* the TLS handshake.  (A failed read of the configuration file is no
\* probe: the extraction helpers replace it by their defaults.)
Raised(pf, pr, cf, front, back, cert) ==
    (IF is_running(pf, pr) /\ pf.st = "garbage" THEN { "process" } ELSE {})
    \cup (IF _extract_frontend_endpoints(cf) # {} /\ front = "raised"
          THEN { "frontend" } ELSE {})
    \cup (IF _extract_backend_endpoints(cf) # {} /\
             (back = "raised" \/ \E b \in _extract_backend_endpoints(cf) : ~BackendParses(b))
          THEN { "backend" } ELSE {})
    \cup (IF _extract_https_endpoints(cf) # {} /\ cert = "raised"
          THEN { "ssl" } ELSE {})

health_report(pf, pr, cf, valid, listening, front, back, cert) ==
    LET checks == [ c \in CheckNames |->
                      CASE c = "process"  -> _check_process(pf, pr)
                        [] c = "config"   -> _check_config(cf, valid)
                        [] c = "ports"    -> _check_ports(cf, listening)
                        [] c = "frontend" -> _check_frontend_connectivity(cf, front)
                        [] c = "backend"  -> _check_backend_connectivity(cf, back)
                        [] c = "ssl"      -> _check_ssl_status(cf, cert) ]
    IN  [ overall_status |-> overall_status(checks),
          checks |-> checks,
          raised |-> Raised(pf, pr, cf, front, back, cert),
          listening |-> listening ]

\* the ports of 127.0.0.1 that may accept a connection (_is_port_listening)
ProbePorts == { 80, 3000, 8080 }

HealthConfigs ==
    { NoConfig, ConfigOf(CustomDoc), Unreadable(CustomDoc) }
        \cup { ConfigOf(Render(d, T_127001, T_3000)) :
                 d \in { WithPort(T_localhost, T_80), T_example,
                         WithPort(T_example, T_8080) } }

InitHealth ==
    /\ Quiet
    /\ procs \in [ PIDs -> ProcValues ]
    /\ pidFile \in PidFileValues
    /\ Observable(pidFile, procs)
    /\ selfMatch = FALSE
    /\ cfgFile \in HealthConfigs
    /\ genCall = NoGenCall

\* the exit code main gives a report (lines 1518 and 1560)
ReportExit(r) == IF r.overall_status = "healthy" THEN 0 ELSE 1

\* a process check that clears a PID file whose process is gone
AfterProcessCheck_clears(pf, pr) ==
    IF pf.st = "pid" /\ ~pr[pf.pid].live THEN PidAbsent ELSE pf

\* lines 716-719: the PID file after _check_process, which opens it with
\* mode 'r' and only reads it
AfterProcessCheck(pf, pr) == pf

\* lines 676-704: health_check(), run once, by the health-check command
\* (lines 1493-1518) or by the diagnose command (lines 1300-1325, 1524-1560)
health_check ==
    /\ nCmds = 0
    /\ nCmds' = nCmds + 1
    /\ cmd' \in { "health-check", "diagnose" }
    /\ \E valid \in BOOLEAN, listening \in SUBSET ProbePorts,
          front \in { "ok", "http_error", "raised" },
          back \in { "ok", "refused", "raised" },
          cert \in { "valid", "expired", "raised" } :
         /\ report' = health_report(pidFile, procs, cfgFile, valid, listening,
                                    front, back, cert)
         /\ exitCode' = ReportExit(health_report(pidFile, procs, cfgFile, valid,
                                                 listening, front, back, cert))
         /\ log' = IF ~cfgFile.exists THEN log
                   ELSE IF valid THEN LogAppend(log, Sup(1))
                   ELSE LogAppend(log, << ValidateErrLine >>)
    /\ pidFile' = AfterProcessCheck(pidFile, procs)
    /\ UNCHANGED << pc, ret, retval, procs, cfgFile,
                    selfMatch, i, newPid, upid, nLines, sent, genCall, hist >>

SpecHealth == InitHealth /\ [][health_check]_vars


(***************************************************************************)
(* Properties of the health aggregation (under SpecHealth).                *)
(***************************************************************************)

\* C1: health_check() reports overall_status 'unhealthy' if and only if at
\* least one check whose required flag is true has a status other than
\* 'ok', and 'healthy' otherwise.
Thm_C1 ==
    report.overall_status # "unknown" =>
        /\ report.overall_status = "unhealthy" <=>
              \E c \in CheckNames :
                  report.checks[c].required /\ report.checks[c].status # "ok"
        /\ report.overall_status = "healthy" <=>
              \A c \in CheckNames :
                  report.checks[c].required => report.checks[c].status = "ok"

\* a healthy report with a check that is not required and not ok
Wit_C1 ==
    /\ report.overall_status = "healthy"
    /\ report.checks["backend"].status = "warning"
    /\ ~report.checks["backend"].required

\* C2: the backend and ssl checks never flip the overall status: it is
\* determined by the results of the process, config, ports and frontend
\* checks alone, whatever the backend and certificate probes return.
Thm_C2 ==
    report.overall_status # "unknown" =>
        (report.overall_status = "healthy" <=>
            \A c \in { "process", "config", "ports", "frontend" } :
                report.checks[c].status = "ok")

\* a healthy report although the backend and the certificate probes raised
Wit_C2 ==
    /\ report.overall_status = "healthy"
    /\ { "backend", "ssl" } \subseteq report.raised
    /\ report.checks["ssl"].status = "warning"

Cex_C10 ==
    ( /\ genCall.called /\ genCall.ok
      /\ genCall.custom_config = NoCustom
      /\ ~is_local(genCall.domain)
      /\ AfterLast(genCall.domain, ":") # T_80 )
    => H_HSTS \in cfgFile.doc.headers

(***************************************************************************)
(* Properties of the lifecycle (under Spec).  d_ret and u_ret are the      *)
(* instants at which deploy() and undeploy() return.                       *)
(***************************************************************************)

\* C3: when a deploy() entered while the service was running returns
\* success, the PID recorded before is no longer alive and the PID file
\* records the newly launched process.
Cex_C3 ==
    ( /\ pc = "d_ret" /\ retval
      /\ hist.wasRunning
      /\ hist.startPid.st = "pid" )
    => /\ ~hist.oldAlive
       /\ pidFile = PidText(newPid)

\* C4: undeploy() entered while is_running() is false returns success
\* without altering the config file, the PID file or the log file and
\* without sending a signal to any process.
Cex_C4 ==
    (pc = "u_ret" /\ ~hist.u.running) =>
        /\ retval
        /\ pidFile = hist.u.pidFile
        /\ cfgFile = hist.u.cfgFile
        /\ hist.u.written = 0
        /\ ~hist.u.signalled /\ sent = {}

\* C4 (as the code has it): undeploy() entered while is_running() is false
\* returns success without altering the config file or the PID file and
\* without sending a signal; it appends its own two lines to the log file.
Thm_C4 ==
    (pc = "u_ret" /\ ~hist.u.running) =>
        /\ retval
        /\ pidFile = hist.u.pidFile
        /\ cfgFile = hist.u.cfgFile
        /\ hist.u.written = 2
        /\ LastN(log, 2) = Sup(2)
        /\ ~hist.u.signalled /\ ~hist.u.swept /\ sent = {}

\* undeploy() returns from the stopped state with a stale PID file in place
Wit_C4 ==
    /\ pc = "u_ret" /\ ~hist.u.running /\ retval
    /\ hist.u.pidFile.st = "pid"

\* C5: every undeploy() that returns success leaves no PID file, also when
\* a stale PID file existed and no managed process was running.
Cex_C5 == (pc = "u_ret" /\ retval) => pidFile = PidAbsent

\* C6: at a start poll at which the recorded PID is not alive and the log
\* tail (last 10 lines) contains "address already in use", deploy()
\* classifies PortInUse and returns failure at that poll.
Cex_C6 ==
    [][ ( /\ pc = "d_poll" /\ i' = i + 1
          /\ pidFile.st = "pid" /\ ~procs[pidFile.pid].live
          /\ \E k \in 1..Len(recent_lines(log)) :
                 M_inuse \in recent_lines(log)[k].marks )
        => ( /\ pc' = "d_ret" /\ ~retval'
             /\ hist'.errKind = "PortInUse"
             /\ i' <= max_wait ) ]_vars

\* C6 (as the code has it): at a start poll at which the recorded PID is
\* not alive and the first line of the log tail that contains 'error:' or
\* 'failed' also contains "address already in use", deploy() classifies
\* PortInUse and returns failure at that poll, within the 10 polls.
Thm_C6 ==
    [][ ( /\ pc = "d_poll" /\ i' = i + 1
          /\ pidFile.st = "pid" /\ ~procs[pidFile.pid].live
          /\ FatalAt(recent_lines(log)) # {}
          /\ M_inuse \in FirstFatal(log).marks )
        => ( /\ pc' = "d_ret" /\ ~retval'
             /\ hist'.errKind = "PortInUse"
             /\ i' <= max_wait ) ]_vars

\* deploy() returns PortInUse before the last poll
Wit_C6 ==
    /\ pc = "d_ret" /\ ~retval
    /\ hist.how = "classified" /\ hist.errKind = "PortInUse"
    /\ i < max_wait
    /\ ~procs[newPid].live

\* C7: when validation fails in the deploy command, the command ends with
\* exit code 1 before any launch: no process was started and the PID file
\* is the one the command found.
Thm_C7 ==
    (pc = "done" /\ cmd = "deploy" /\ hist.validated \in { "invalid", "error" }) =>
        /\ exitCode = 1
        /\ ~hist.launched /\ newPid = 0
        /\ pidFile = hist.startPid
        /\ hist.how = "none" /\ ~hist.u.signalled

\* a deploy command ended by a rejected config, the PID file still naming
\* the managed process that was running
Wit_C7 ==
    /\ pc = "done" /\ cmd = "deploy" /\ hist.validated = "invalid"
    /\ pidFile.st = "pid" /\ procs[pidFile.pid] = Managed

\* C8: the start poll is bounded: deploy() polls at most 10 times and has
\* returned after the 10th; when at the 10th poll the recorded PID is not
\* alive and the log has no fatal line, it returns failure.
Thm_C8 ==
    /\ [](pc = "d_poll" => i < max_wait)
    /\ [][ (pc = "d_poll" /\ (i' # i \/ pc' # pc)) =>
              /\ i' = i + 1 /\ i' <= max_wait
              /\ pc' \in { "d_poll", "d_ret" }
              /\ i' = max_wait => pc' = "d_ret"
              /\ ( /\ i' = max_wait
                   /\ ~_check_pid_file_process(pidFile, procs)
                   /\ _check_startup_errors(log) = "None" )
                 => ~retval' /\ hist'.how = "timeout" ]_vars

\* deploy() returns failure after ten polls found neither
Wit_C8 ==
    /\ pc = "d_ret" /\ i = max_wait
    /\ hist.how = "timeout" /\ ~retval

(***************************************************************************)
(* Further properties of the renderer (under SpecConfig).                  *)
(***************************************************************************)

\* C11: for a listen spec that starts with localhost, 127. or 0.0.0.0,
\* generate_config() without a custom override writes a config without
\* the HSTS header and with the local header set (X-Frame-Options
\* SAMEORIGIN, X-Content-Type-Options nosniff, no Referrer-Policy).
Thm_C11 ==
    ( /\ genCall.called /\ genCall.ok
      /\ genCall.custom_config = NoCustom
      /\ \/ StartsWith(genCall.domain, T_localhost)
         \/ StartsWith(genCall.domain, T_127)
         \/ StartsWith(genCall.domain, T_0000) )
    => /\ cfgFile.exists /\ cfgFile.doc.site = genCall.domain
       /\ H_HSTS \notin cfgFile.doc.headers
       /\ H_FrameSO \in cfgFile.doc.headers
       /\ H_NoSniff \in cfgFile.doc.headers
       /\ H_Referrer \notin cfgFile.doc.headers
       /\ H_FrameDN \notin cfgFile.doc.headers

\* a local spec without port, rendered with the local header set
Wit_C11 ==
    /\ genCall.called /\ genCall.ok /\ genCall.custom_config = NoCustom
    /\ genCall.domain = T_localhost
    /\ cfgFile.doc.headers = { H_FrameSO, H_NoSniff, H_NoServer }

\* C12: for a listen spec that is not local and contains the literal ":80",
\* generate_config() without a custom override writes a config without the
\* HSTS header and with the production header set (X-Frame-Options DENY,
\* X-Content-Type-Options nosniff, Referrer-Policy).
Thm_C12 ==
    ( /\ genCall.called /\ genCall.ok
      /\ genCall.custom_config = NoCustom
      /\ ~is_local(genCall.domain)
      /\ Contains(genCall.domain, T_colon80) )
    => /\ cfgFile.exists /\ cfgFile.doc.site = genCall.domain
       /\ H_HSTS \notin cfgFile.doc.headers
       /\ H_FrameDN \in cfgFile.doc.headers
       /\ H_NoSniff \in cfgFile.doc.headers
       /\ H_Referrer \in cfgFile.doc.headers

\* a public host on port 80, rendered with the production set without HSTS
Wit_C12 ==
    /\ genCall.called /\ genCall.ok /\ genCall.custom_config = NoCustom
    /\ genCall.domain = WithPort(T_example, T_80)
    /\ cfgFile.doc.headers = { H_FrameDN, H_NoSniff, H_Referrer, H_NoServer }

(***************************************************************************)
(* Further properties of the health aggregation (under SpecHealth).        *)
(***************************************************************************)

\* C13: the ports check examines the listen ports of the site address and
\* never the backend port: with a config whose site address names a port,
\* the check is ok if and only if that port accepts connections (error if
\* and only if it does not); so for localhost:80 with backend port 3000 it
\* is ok if and only if port 80 accepts connections.
Cex_C13 ==
    ( /\ report.overall_status # "unknown"
      /\ cfgFile.exists /\ cfgFile.readable
      /\ OpenerPort(cfgFile.doc.site) # {} )
    => /\ report.checks["ports"].status = "ok" <=>
              OpenerPort(cfgFile.doc.site) \cap report.listening # {}
       /\ report.checks["ports"].status = "error" <=>
              OpenerPort(cfgFile.doc.site) \cap report.listening = {}

(***************************************************************************)
(* Further properties of the lifecycle (under Spec).                       *)
(***************************************************************************)

\* C14: every command ends with exit code 0 or 1: the deploy command with
\* 0 if and only if deploy() returned success, the undeploy command with 0
\* if and only if undeploy() returned success, and with 1 otherwise.
Cex_C14 ==
    pc = "done" =>
        /\ exitCode \in { 0, 1 }
        /\ cmd = "deploy" =>
               (exitCode = 0 <=> hist.launched /\ hist.how = "alive" /\ retval)
        /\ cmd = "undeploy" => (exitCode = 0 <=> retval)

\* C15: a port conflict found by the pre-start check never aborts
\* deploy(): the check is always followed by the rest of deploy(), and when
\* it finds instances of the managed executable it stops them (every live
\* one is sent the terminate signal) before the launch.
Cex_C15 ==
    /\ [][ pc = "d_conflicts" => pc' \in { "d_conflicts", "d_isrunning" } ]_vars
    /\ [][ (pc = "d_conflicts" /\ sent' # {}) =>
              \A p \in PIDs :
                  (procs[p].live /\ procs[p].caddy) =>
                      Sig("TERM", p, procs) \in sent' ]_vars

\* C16: a recorded PID that no longer exists when the graceful or the
\* forced signal is sent is not an error: undeploy() removes the PID file,
\* goes on to the sweep, and the sweep is followed by the success return.
Cex_C16 ==
    /\ [][ (pc \in { "u_term", "u_kill" } /\ \E s \in sent' : ~s.to.live) =>
              (pidFile' = PidAbsent /\ pc' = "u_sweep") ]_vars
    /\ [][ (pc = "u_sweep" /\ pc' # pc /\ \E s \in sent : ~s.to.live) =>
              (pc' = "u_ret" /\ retval' /\ pidFile' = PidAbsent) ]_vars

\* C17: in a start poll the PID check precedes the log scan: when the
\* recorded PID is alive deploy() returns success at that poll, whatever
\* the log tail contains, and a failure classified from the log is returned
\* only at a poll at which the recorded PID was not alive.
Thm_C17 ==
    [][ (pc = "d_poll" /\ i' = i + 1) =>
           /\ (pidFile.st = "pid" /\ procs[pidFile.pid].live) =>
                  (pc' = "d_ret" /\ retval' /\ hist'.how = "alive")
           /\ (pc' = "d_ret" /\ hist'.how = "classified") =>
                  (~retval' /\ ~(pidFile.st = "pid" /\ procs[pidFile.pid].live)) ]_vars

\* deploy() returns success while the log tail holds a fatal line
Wit_C17 ==
    /\ pc = "d_ret" /\ retval /\ hist.how = "alive"
    /\ procs[newPid].live
    /\ FatalAt(recent_lines(log)) # {}

\* C18: in a deploy invocation the port-conflict check is the first step:
\* the config file is rewritten only after it, and validation and launch
\* come after it.
Cex_C18 ==
    /\ [][ cfgFile' # cfgFile =>
              pc \notin { "idle", "m_validate", "d_conflicts" } ]_vars
    /\ [](pc = "d_conflicts" => hist.validated = "none" /\ ~hist.launched)

\* C18 (as the code has it): the port-conflict check is the first step of
\* deploy(), which the deploy command calls after the config file has been
\* rewritten from the arguments and has passed validation; the launch comes
\* after the check.
Thm_C18 ==
    /\ [](pc = "d_conflicts" =>
            /\ genCall.called /\ genCall.ok
            /\ cfgFile = ConfigOf(config_content(genCall.domain,
                                  genCall.backend_port, genCall.backend_host,
                                  genCall.custom_config))
            /\ hist.validated = "valid"
            /\ ~hist.launched /\ newPid = 0)
    /\ [][ cfgFile' # cfgFile => (pc = "idle" /\ pc' = "m_validate") ]_vars
    /\ [][ (hist'.launched /\ ~hist.launched) =>
              (pc \in { "d_isrunning", "d_launch" } /\ hist.validated = "valid") ]_vars

\* deploy() is at its conflict check, the new config written and validated,
\* while the service of the previous config is running
Wit_C18 ==
    /\ pc = "d_conflicts" /\ hist.validated = "valid"
    /\ cfgFile.exists /\ is_running(pidFile, procs)

\* C19: undeploy() sends the forced signal only to a process that is still
\* alive after the grace interval: SIGKILL is never sent to a PID whose
\* process has already exited.
Cex_C19 ==
    [][ \A s \in sent' : s.sig = "KILL" => s.to.live ]_vars

\* C20: the sweep terminates every process that matches the invocation
\* pattern of the managed executable (the one is_running() looks for) and
\* no other process: never the supervisor itself, never an unrelated one.
Cex_C20 ==
    [][ (pc \in { "u_sweep", "d_conflicts" } /\ sent' # {}) =>
           /\ SelfSig \notin sent'
           /\ \A s \in sent' : s.to.live /\ s.to.caddy
           /\ \A p \in PIDs :
                  (procs[p].live /\ procs[p].caddy) =>
                      Sig("TERM", p, procs) \in sent' ]_vars

(***************************************************************************)
(* Properties of the persisted handle and of the return points (under      *)
(* Spec).                                                                  *)
(***************************************************************************)

\* C21: the PID file is created only on successful start: when deploy()
\* returns failure after a launch (classified failure or timeout), no PID
\* file records the failed launch and is_running() is false.
Cex_C21 ==
    (pc = "d_ret" /\ ~retval /\ hist.launched) =>
        /\ pidFile # PidText(newPid)
        /\ ~is_running(pidFile, procs)

(***************************************************************************)
(* Frame of the diagnosis (under SpecHealth).                              *)
(***************************************************************************)

\* C22: diagnose() is read-only: from every state, a diagnose run leaves
\* the process table (so the set of live managed processes), the PID file
\* and the configuration file unchanged, and sends no signal.
Thm_C22 ==
    [][ cmd' = "diagnose" =>
           /\ procs' = procs
           /\ pidFile' = pidFile
           /\ cfgFile' = cfgFile
           /\ sent' = {} ]_vars

\* a diagnosis that found a stale PID file, an orphan instance and a
\* config file, reported unhealthy, and left all three in place
Wit_C22 ==
    /\ cmd = "diagnose" /\ report.overall_status = "unhealthy"
    /\ pidFile.st = "pid" /\ ~procs[pidFile.pid].live
    /\ \E p \in PIDs : procs[p] = Managed
    /\ cfgFile.exists

(***************************************************************************)
(* Variant selection (under SpecConfig).                                   *)
(***************************************************************************)
\* the template a rendered document came from, told by its header block
VariantOfDoc(doc) ==
    IF H_HSTS \in doc.headers THEN "hsts"
    ELSE IF H_FrameSO \in doc.headers THEN "local"
    ELSE "http"

Cex_C24 ==
    (pc = "d_ret" /\ retval) =>
        /\ pidFile = PidText(newPid)
        /\ \A p \in PIDs \ { newPid } : procs[p] # Managed

\* C25: whenever undeploy() returns success, no managed process is alive
\* at that moment: is_running() is false, whether the process was found
\* through the PID file or only as an orphan.
Cex_C25 ==
    (pc = "u_ret" /\ retval) => ~is_running(pidFile, procs)

\* C26: a signal addressed through the PID file only ever reaches an
\* instance of the managed executable: the process that holds the PID read
\* from the PID file when undeploy() signals it is a managed instance.
Cex_C26 ==
    [][ \A s \in sent' :
           (pc \in { "u_term", "u_kill" } /\ s.to.live) => s.to.caddy ]_vars

(***************************************************************************)
(* Classification and the log (under Spec).                                *)
(***************************************************************************)

\* C27: the error kind of a failed deploy() comes from a log line written
\* by the current launch attempt: the line that decides a classified
\* failure was written by the process launched in this command, never left
\* in the log by an earlier attempt.
Cex_C27 ==
    [][ (pc = "d_poll" /\ pc' = "d_ret" /\ hist'.how = "classified") =>
           /\ FirstFatal(log).by = "caddy"
           /\ FirstFatal(log).run = nCmds ]_vars

(***************************************************************************)
(* Probes and variants (under SpecConfig).                                 *)
(***************************************************************************)

\* C28: the probe scheme agrees with the variant of the renderer: the
\* endpoint read back from a config generated without custom override is
\* probed over https, and is in the TLS check, if and only if the HSTS
\* variant was chosen; local and HTTP-only specs are probed over http.
Cex_C28 ==
    ( /\ genCall.called /\ genCall.ok
      /\ genCall.custom_config = NoCustom )
    => /\ _extract_frontend_endpoints(cfgFile) # {}
       /\ \A ep \in _extract_frontend_endpoints(cfgFile) :
              /\ ep.scheme = "https" <=> Variant(genCall.domain) = "hsts"
              /\ ep \in _extract_https_endpoints(cfgFile) <=>
                     Variant(genCall.domain) = "hsts"

(***************************************************************************)
(* undeploy() and the content of the PID file (under Spec).                *)
(***************************************************************************)

\* C29: whenever is_running() is true when undeploy() starts, undeploy()
\* has run the sweep and removed the PID file when it returns, whatever the
\* PID file holds (unparsable text, a PID that cannot be signalled).
Cex_C29 ==
    (pc = "u_ret" /\ hist.u.running) =>
        /\ hist.u.swept
        /\ pidFile = PidAbsent
=============================================================================
